---- MODULE Spec2Model ----
(***************************************************************************)
(* BidHub: the bid-placement and auction-settlement engine.                *)
(*                                                                         *)
(* The store is the PostgreSQL schema of supabase/schema.sql and           *)
(* supabase/reset-and-recreate.sql.  Every database function runs as one   *)
(* transaction (READ COMMITTED); a transaction is a session that moves     *)
(* through the statements of the function, takes row locks with            *)
(* SELECT ... FOR UPDATE / UPDATE, blocks while another session holds the   *)
(* row, and releases its locks when the function returns.  now() is the    *)
(* start time of the transaction.                                          *)
(***************************************************************************)
EXTENDS Integers, Sequences, FiniteSets, Bags, TLC

\* ------------------------------------------------------------------ bounds
NumSessions == 2
MaxAmount == 2
MaxTime == 1
MaxLedger == 2
MaxRaise == 4
MaxBids == 3
MaxNotices == 3

\* ------------------------------------------------------- program constants
v_fee == 100

\* ------------------------------------------------------------------ values
NULL == "NULL"
Accounts == {"s", "b1", "b2"}
NoAccount == "ghost"
UserIds == Accounts \cup {NoAccount}
ListingIds == {"l1", "l2"}
MissingListing == "l0"
Sessions == 1..NumSessions
Amounts == {k * v_fee : k \in 1..MaxAmount}
Times == 0..MaxTime

E_Suspended == "Your account is suspended."
E_ListingNotFound == "Listing not found."
E_SelfBid == "You cannot bid on your own listing."
E_NotActive == "This auction is not active."
E_Ended == "This auction has ended."
E_AmountNotPositive == "Bid amount must be greater than 0."
E_InsufficientPoints == "Insufficient bid points."
E_BelowMinimum == "Bid must be at least the minimum."
E_AlreadyHighest == "You are already the highest bidder at this amount."
E_NotOwner == "You do not own this listing."
E_NotDraft == "Only draft listings can be activated."
E_FeeBalance == "Listing fee is more than your balance."
E_AmountMustBePositive == "Amount must be positive."
E_WalletNotFound == "Wallet not found."
E_NeedPoints == "Insufficient bid points. You need amount points but have balance."
OK == "OK"

VARIABLES
  clock,          \* wall-clock time
  is_suspended,   \* profiles.is_suspended, per account
  listings,       \* listings rows, by id
  bids,           \* bids rows of each listing, in commit order
  balance,        \* wallets.balance, per account
  transactions,   \* transactions rows (a bag: ids and timestamps dropped)
  notifications,  \* notifications rows (a bag)
  listingLock,    \* row lock on a listings row: the holding session, or 0
  walletLock,     \* row lock on a wallets row: the holding session, or 0
  session,        \* each session's call in progress
  reply           \* what the call that returned in the last step returned

vars == <<clock, is_suspended, listings, bids, balance, transactions,
          notifications, listingLock, walletLock, session, reply>>

store == <<is_suspended, listings, bids, balance, transactions, notifications>>

\* ------------------------------------------------------------------- rows
NewListing(seller, starting_price, minimum_increment, end_time, status) ==
  [seller_id |-> seller,
   starting_price |-> starting_price,
   minimum_increment |-> minimum_increment,
   current_price |-> starting_price,
   highest_bidder_id |-> NULL,
   bid_count |-> 0,
   end_time |-> end_time,
   status |-> status]

Transaction(user, type, amount, listing) ==
  [user_id |-> user, type |-> type, amount |-> amount, listing_id |-> listing]

Notification(user, type, listing) ==
  [user_id |-> user, type |-> type, listing_id |-> listing]

\* ---------------------------------------------------------------- sessions
Idle == [pc |-> "idle"]
NoReply == [op |-> "none"]

\* The JSONB (or INTEGER) a function returns to its caller.
Reply(op, error) == [op |-> op, success |-> error = OK, error |-> error]
Count(op, n) == [op |-> op, count |-> n]

Returns(p, r) ==
  /\ session' = [session EXCEPT ![p] = Idle]
  /\ reply' = r

\* A row lock that is not taken.
LockRow_None(lock, x, p) == lock

\* SELECT ... FOR UPDATE: session p holds the lock of row x until it commits.
LockRow(lock, x, p) == [lock EXCEPT ![x] = p]

\* The end of a transaction releases every row lock it holds.
Release(lock, p) == [x \in DOMAIN lock |-> IF lock[x] = p THEN 0 ELSE lock[x]]

\* Calls of credit_wallet and debit_wallet so far (the bound on top-ups).
WalletCalls ==
  BagCardinality(BagOfAll(LAMBDA t : t.type,
    [t \in {x \in DOMAIN transactions : x.type \in {"TOP_UP", "BID_DEDUCTION"}}
       |-> transactions[t]]))

\* ------------------------------------------------------------------- Init
\* Three registered accounts with empty wallets (handle_new_user) and one
\* listing as the seller's persistListing("DRAFT") creates it.
Init ==
  /\ clock = 0
  /\ is_suspended = [u \in Accounts |-> FALSE]
  /\ listings = ("l1" :> NewListing("s", v_fee, v_fee, 1, "DRAFT"))
  /\ bids = [l \in ListingIds |-> <<>>]
  /\ balance = [u \in Accounts |-> 0]
  /\ transactions = EmptyBag
  /\ notifications = EmptyBag
  /\ listingLock = [l \in ListingIds |-> 0]
  /\ walletLock = [u \in Accounts |-> 0]
  /\ session = [p \in Sessions |-> Idle]
  /\ reply = NoReply

\* ------------------------------------------------------------------ clock
Tick ==
  /\ clock < MaxTime
  /\ clock' = clock + 1
  /\ reply' = NoReply
  /\ UNCHANGED <<store, listingLock, walletLock, session>>

\* -------------------------------------------------------------- place_bid
\* The client sends the RPC place_bid(p_listing_id, p_bidder_id, p_amount).
PlaceBidCall(p, ls, us, as) ==
  /\ session[p] = Idle
  /\ \E l \in ls, u \in us, a \in as :
       /\ l \in DOMAIN bids => Len(bids[l]) < MaxBids
       /\ session' = [session EXCEPT ![p] =
            [pc |-> "pb_begin", p_listing_id |-> l, p_bidder_id |-> u, p_amount |-> a]]
  /\ reply' = NoReply
  /\ UNCHANGED <<clock, store, listingLock, walletLock>>

\* SELECT is_suspended INTO v_bidder_suspended: NULL when the profile is missing,
\* and NULL IS TRUE is false.
BidderSuspended(u) == u \in DOMAIN is_suspended /\ is_suspended[u]

\* The transaction starts (now() is fixed here) and checks the suspension.
PlaceBidBegin(p) ==
  /\ session[p].pc = "pb_begin"
  /\ IF BidderSuspended(session[p].p_bidder_id)
       THEN Returns(p, Reply("place_bid", E_Suspended))
       ELSE /\ session' = [session EXCEPT ![p] =
                 [session[p] EXCEPT !.pc = "pb_listing"] @@ [now |-> clock]]
            /\ reply' = NoReply
  /\ UNCHANGED <<clock, store, listingLock, walletLock>>

\* The checks on the listing with the status looked at before the seller.
ListingChecks_StatusFirst(v_listing, p_bidder_id, p_amount, now) ==
  IF v_listing.status # "ACTIVE" THEN E_NotActive
  ELSE IF v_listing.seller_id = p_bidder_id THEN E_SelfBid
  ELSE IF v_listing.end_time <= now THEN E_Ended
  ELSE IF p_amount <= 0 THEN E_AmountNotPositive
  ELSE OK

\* The checks on the listing as they would be without the check of the seller.
ListingChecks_NoSelfBid(v_listing, p_bidder_id, p_amount, now) ==
  IF v_listing.status # "ACTIVE" THEN E_NotActive
  ELSE IF v_listing.end_time <= now THEN E_Ended
  ELSE IF p_amount <= 0 THEN E_AmountNotPositive
  ELSE OK

\* Checks 2-5 on the locked listing row, in the order of the code.
ListingChecks(v_listing, p_bidder_id, p_amount, now) ==
  IF v_listing.seller_id = p_bidder_id THEN E_SelfBid
  ELSE IF v_listing.status # "ACTIVE" THEN E_NotActive
  ELSE IF v_listing.end_time <= now THEN E_Ended
  ELSE IF p_amount <= 0 THEN E_AmountNotPositive
  ELSE OK

\* SELECT * INTO v_listing ... FOR UPDATE (waits for the row lock), then the
\* checks on the listing and the amount.
PlaceBidLockListing(p) ==
  LET c == session[p]
      l == c.p_listing_id
  IN
  /\ c.pc = "pb_listing"
  /\ IF l \notin DOMAIN listings
       THEN /\ Returns(p, Reply("place_bid", E_ListingNotFound))
            /\ UNCHANGED listingLock
       ELSE /\ listingLock[l] = 0
            /\ LET e == ListingChecks(listings[l], c.p_bidder_id, c.p_amount, c.now)
               IN IF e # OK
                    THEN /\ Returns(p, Reply("place_bid", e))
                         /\ UNCHANGED listingLock
                    ELSE /\ listingLock' = LockRow(listingLock, l, p)
                         /\ session' = [session EXCEPT ![p] =
                              [c EXCEPT !.pc = "pb_wallet"] @@ [v_listing |-> listings[l]]]
                         /\ reply' = NoReply
  /\ UNCHANGED <<clock, store, walletLock>>

\* The minimum as it would be without the increment on a listing with bids.
MinimumBid_NoIncrement(v_listing) == v_listing.current_price

\* The minimum as it would be if the increment applied to the first bid too.
MinimumBid_AboveStart(v_listing) ==
  v_listing.current_price + v_listing.minimum_increment

\* IF v_listing.highest_bidder_id IS NULL THEN v_min_bid := current_price
\* ELSE v_min_bid := current_price + minimum_increment
MinimumBid(v_listing) ==
  IF v_listing.highest_bidder_id = NULL
    THEN v_listing.current_price
    ELSE v_listing.current_price + v_listing.minimum_increment

\* The checks on the wallet with the re-bid looked at before the minimum.
WalletChecks_ReBidFirst(v_listing, v_wallet_balance, p_bidder_id, p_amount) ==
  IF v_wallet_balance = <<>> \/ v_wallet_balance[1] < p_amount THEN E_InsufficientPoints
  ELSE IF v_listing.highest_bidder_id = p_bidder_id /\ p_amount = v_listing.current_price
    THEN E_AlreadyHighest
  ELSE IF p_amount < MinimumBid(v_listing) THEN E_BelowMinimum
  ELSE OK

\* The checks on the wallet with a balance that has to exceed the amount.
WalletChecks_Strict(v_listing, v_wallet_balance, p_bidder_id, p_amount) ==
  IF v_wallet_balance = <<>> \/ v_wallet_balance[1] <= p_amount THEN E_InsufficientPoints
  ELSE IF p_amount < MinimumBid(v_listing) THEN E_BelowMinimum
  ELSE IF v_listing.highest_bidder_id = p_bidder_id /\ p_amount = v_listing.current_price
    THEN E_AlreadyHighest
  ELSE OK

\* Checks 6-8 once the wallet row is read; v_wallet_balance is
\* <<balance>>, or <<>> for the NULL of a missing wallets row.
WalletChecks(v_listing, v_wallet_balance, p_bidder_id, p_amount) ==
  IF v_wallet_balance = <<>> \/ v_wallet_balance[1] < p_amount THEN E_InsufficientPoints
  ELSE IF p_amount < MinimumBid(v_listing) THEN E_BelowMinimum
  ELSE IF v_listing.highest_bidder_id = p_bidder_id /\ p_amount = v_listing.current_price
    THEN E_AlreadyHighest
  ELSE OK

\* INSERT INTO bids (id, listing_id, bidder_id, amount)
InsertBid(rows, p_bidder_id, p_amount) ==
  Append(rows, [bidder_id |-> p_bidder_id, amount |-> p_amount])

\* The listing update as it would be without the counter.
UpdateListingBid_NoCount(row, p_bidder_id, p_amount) ==
  [row EXCEPT !.current_price = p_amount, !.highest_bidder_id = p_bidder_id]

\* UPDATE listings SET current_price, highest_bidder_id, bid_count = bid_count + 1
UpdateListingBid(row, p_bidder_id, p_amount) ==
  [row EXCEPT !.current_price = p_amount,
              !.highest_bidder_id = p_bidder_id,
              !.bid_count = @ + 1]

\* A function that writes whatever the checks say.
Commits_Always(e) == TRUE

\* Every failed check is a RETURN ahead of the INSERT and the UPDATE.
Commits(e) == e = OK

\* The last step of place_bid as it would be if an accepted bid were paid
\* for at once.
PlaceBidLockWallet_Debit(p) ==
  LET c == session[p]
      l == c.p_listing_id
      u == c.p_bidder_id
      v_wallet_balance == IF u \in DOMAIN balance THEN <<balance[u]>> ELSE <<>>
      e == WalletChecks(c.v_listing, v_wallet_balance, u, c.p_amount)
  IN
  /\ c.pc = "pb_wallet"
  /\ u \in DOMAIN walletLock => walletLock[u] = 0
  /\ IF Commits(e)
       THEN /\ bids' = [bids EXCEPT ![l] = InsertBid(@, u, c.p_amount)]
            /\ listings' = [listings EXCEPT ![l] = UpdateListingBid(@, u, c.p_amount)]
            /\ balance' = [balance EXCEPT ![u] = @ - c.p_amount]
       ELSE UNCHANGED <<listings, bids, balance>>
  /\ Returns(p, Reply("place_bid", e))
  /\ listingLock' = Release(listingLock, p)
  /\ UNCHANGED <<clock, is_suspended, transactions, notifications, walletLock>>

\* SELECT balance ... FOR UPDATE (waits for the wallet row lock), checks 6-8,
\* the insert and the update; the function returns and the transaction commits.
PlaceBidLockWallet(p) ==
  LET c == session[p]
      l == c.p_listing_id
      u == c.p_bidder_id
      v_wallet_balance == IF u \in DOMAIN balance THEN <<balance[u]>> ELSE <<>>
      e == WalletChecks(c.v_listing, v_wallet_balance, u, c.p_amount)
  IN
  /\ c.pc = "pb_wallet"
  /\ u \in DOMAIN walletLock => walletLock[u] = 0
  /\ IF Commits(e)
       THEN /\ bids' = [bids EXCEPT ![l] = InsertBid(@, u, c.p_amount)]
            /\ listings' = [listings EXCEPT ![l] = UpdateListingBid(@, u, c.p_amount)]
       ELSE UNCHANGED <<listings, bids>>
  /\ Returns(p, Reply("place_bid", e))
  /\ listingLock' = Release(listingLock, p)
  /\ UNCHANGED <<clock, is_suspended, balance, transactions, notifications, walletLock>>

\* ------------------------------------------------- credit_wallet, debit_wallet
\* credit_wallet(p_user_id, p_amount): one UPDATE (which waits for the wallet
\* row lock) and one INSERT.
CreditWallet(p, us, as) ==
  /\ session[p] = Idle
  /\ WalletCalls < MaxLedger
  /\ \E u \in us, a \in as :
       IF a <= 0
         THEN /\ reply' = Reply("credit_wallet", E_AmountMustBePositive)
              /\ UNCHANGED <<balance, transactions>>
       ELSE IF u \notin DOMAIN balance
         THEN /\ reply' = Reply("credit_wallet", E_WalletNotFound)
              /\ UNCHANGED <<balance, transactions>>
       ELSE /\ walletLock[u] = 0
            /\ balance' = [balance EXCEPT ![u] = @ + a]
            /\ transactions' = transactions (+) SetToBag({Transaction(u, "TOP_UP", a, NULL)})
            /\ reply' = Reply("credit_wallet", OK)
  /\ UNCHANGED <<clock, is_suspended, listings, bids, notifications,
                 listingLock, walletLock, session>>

\* debit_wallet(p_user_id, p_amount): the amount check and
\* SELECT balance INTO v_balance ... FOR UPDATE.
DebitWalletLock(p, us, as) ==
  /\ session[p] = Idle
  /\ WalletCalls < MaxLedger
  /\ \E u \in us, a \in as :
       IF a <= 0
         THEN /\ reply' = Reply("debit_wallet", E_AmountMustBePositive)
              /\ UNCHANGED <<walletLock, session>>
       ELSE IF u \notin DOMAIN balance
         THEN /\ reply' = Reply("debit_wallet", E_WalletNotFound)
              /\ UNCHANGED <<walletLock, session>>
       ELSE /\ walletLock[u] = 0
            /\ walletLock' = LockRow(walletLock, u, p)
            /\ session' = [session EXCEPT ![p] =
                 [pc |-> "dw_update", p_user_id |-> u, p_amount |-> a,
                  v_balance |-> balance[u]]]
            /\ reply' = NoReply
  /\ UNCHANGED <<clock, store, listingLock>>

\* A debit that never finds the balance too low.
Overdraw_Never(v_balance, p_amount) == FALSE

\* IF v_balance < p_amount THEN RETURN 'Insufficient bid points.'
Overdraw(v_balance, p_amount) == v_balance < p_amount

\* The balance check on v_balance, the UPDATE and the INSERT; the commit.
DebitWalletUpdate(p) ==
  LET c == session[p]
      u == c.p_user_id
  IN
  /\ c.pc = "dw_update"
  /\ IF Overdraw(c.v_balance, c.p_amount)
       THEN /\ Returns(p, Reply("debit_wallet", E_InsufficientPoints))
            /\ UNCHANGED <<balance, transactions>>
       ELSE /\ balance' = [balance EXCEPT ![u] = @ - c.p_amount]
            /\ transactions' = transactions (+)
                 SetToBag({Transaction(u, "BID_DEDUCTION", 0 - c.p_amount, NULL)})
            /\ Returns(p, Reply("debit_wallet", OK))
  /\ walletLock' = Release(walletLock, p)
  /\ UNCHANGED <<clock, is_suspended, listings, bids, notifications, listingLock>>

\* ------------------------------------------------------- activate_listing
\* activate_listing as it would be without the check of the status.
ActivateListing_AnyStatus(p, ls, us) ==
  /\ session[p] = Idle
  /\ \E l \in ls, u \in us :
       IF l \notin DOMAIN listings
         THEN /\ reply' = Reply("activate_listing", E_ListingNotFound)
              /\ UNCHANGED listings
       ELSE /\ listingLock[l] = 0
            /\ IF listings[l].seller_id # u
                 THEN /\ reply' = Reply("activate_listing", E_NotOwner)
                      /\ UNCHANGED listings
               ELSE /\ listings' = [listings EXCEPT ![l].status = "ACTIVE"]
                    /\ reply' = Reply("activate_listing", OK)
  /\ UNCHANGED <<clock, is_suspended, bids, balance, transactions, notifications,
                 listingLock, walletLock, session>>

\* reset-and-recreate.sql: lock the listing, check owner and status, activate.
ActivateListing(p, ls, us) ==
  /\ session[p] = Idle
  /\ \E l \in ls, u \in us :
       IF l \notin DOMAIN listings
         THEN /\ reply' = Reply("activate_listing", E_ListingNotFound)
              /\ UNCHANGED listings
       ELSE /\ listingLock[l] = 0
            /\ IF listings[l].seller_id # u
                 THEN /\ reply' = Reply("activate_listing", E_NotOwner)
                      /\ UNCHANGED listings
               ELSE IF listings[l].status # "DRAFT"
                 THEN /\ reply' = Reply("activate_listing", E_NotDraft)
                      /\ UNCHANGED listings
               ELSE /\ listings' = [listings EXCEPT ![l].status = "ACTIVE"]
                    /\ reply' = Reply("activate_listing", OK)
  /\ UNCHANGED <<clock, is_suspended, bids, balance, transactions, notifications,
                 listingLock, walletLock, session>>

\* schema.sql (listing fee): lock the listing, check owner and status.
ActivateFeeLockListing(p, ls, us) ==
  /\ session[p] = Idle
  /\ \E l \in ls, u \in us :
       IF l \notin DOMAIN listings
         THEN /\ reply' = Reply("activate_listing", E_ListingNotFound)
              /\ UNCHANGED <<listingLock, session>>
       ELSE /\ listingLock[l] = 0
            /\ IF listings[l].seller_id # u
                 THEN /\ reply' = Reply("activate_listing", E_NotOwner)
                      /\ UNCHANGED <<listingLock, session>>
               ELSE IF listings[l].status # "DRAFT"
                 THEN /\ reply' = Reply("activate_listing", E_NotDraft)
                      /\ UNCHANGED <<listingLock, session>>
               ELSE /\ listingLock' = LockRow(listingLock, l, p)
                    /\ session' = [session EXCEPT ![p] =
                         [pc |-> "al_wallet", p_listing_id |-> l, p_user_id |-> u]]
                    /\ reply' = NoReply
  /\ UNCHANGED <<clock, store, walletLock>>

\* SELECT balance ... FOR UPDATE, the fee check, the deduction, the LISTING_FEE
\* row and the activation; the commit.
ActivateFeeLockWallet(p) ==
  LET c == session[p]
      l == c.p_listing_id
      u == c.p_user_id
  IN
  /\ c.pc = "al_wallet"
  /\ u \in DOMAIN walletLock => walletLock[u] = 0
  /\ IF u \notin DOMAIN balance \/ balance[u] < v_fee
       THEN /\ Returns(p, Reply("activate_listing", E_FeeBalance))
            /\ UNCHANGED <<balance, transactions, listings>>
       ELSE /\ balance' = [balance EXCEPT ![u] = @ - v_fee]
            /\ transactions' = transactions (+)
                 SetToBag({Transaction(u, "LISTING_FEE", 0 - v_fee, l)})
            /\ listings' = [listings EXCEPT ![l].status = "ACTIVE"]
            /\ Returns(p, Reply("activate_listing", OK))
  /\ listingLock' = Release(listingLock, p)
  /\ UNCHANGED <<clock, is_suspended, bids, notifications, walletLock>>

\* --------------------------------------------------- end_expired_auctions
\* WHERE status = 'ACTIVE' AND end_time <= now()
Expired(row, now) == row.status = "ACTIVE" /\ row.end_time <= now

\* A cursor that never returns a row.
SweepRows_None(now) == {}

\* The cursor as it would be without SKIP LOCKED and without waiting.
SweepRows_Locked(now) ==
  {l \in DOMAIN listings : Expired(listings[l], now)}

\* The rows the cursor returns: FOR UPDATE SKIP LOCKED leaves out locked rows.
SweepRows(now) ==
  {l \in DOMAIN listings : Expired(listings[l], now) /\ listingLock[l] = 0}

\* SELECT id, title, highest_bidder_id, current_price, seller_id
Cursor(rows, ids) ==
  {[id |-> l,
    highest_bidder_id |-> rows[l].highest_bidder_id,
    current_price |-> rows[l].current_price] : l \in ids}

\* The transaction starts; the query locks the rows it returns and v_listing
\* holds id, highest_bidder_id and current_price of each.
SweepBegin(p) ==
  /\ session[p] = Idle
  /\ session' = [session EXCEPT ![p] =
       [pc |-> "sw_loop", v_count |-> 0, rows |-> Cursor(listings, SweepRows(clock))]]
  /\ listingLock' = [l \in DOMAIN listingLock |->
                       IF l \in SweepRows(clock) THEN p ELSE listingLock[l]]
  /\ reply' = NoReply
  /\ UNCHANGED <<clock, store, walletLock>>

\* UPDATE wallets SET balance = balance - price WHERE user_id = winner AND
\* balance >= price: the row it changes, if any.
WinnerCharged(bal, winner, price) == winner \in DOMAIN bal /\ bal[winner] >= price

SettleWallet(bal, winner, price) ==
  IF WinnerCharged(bal, winner, price)
    THEN [bal EXCEPT ![winner] = @ - price]
    ELSE bal

\* INSERT INTO transactions ... 'AUCTION_WIN_DEDUCTION', -current_price
SettleLedger(txs, v_listing) ==
  txs (+) SetToBag({Transaction(v_listing.highest_bidder_id, "AUCTION_WIN_DEDUCTION",
                                0 - v_listing.current_price, v_listing.id)})

\* The bidders as they would be selected without the test on the winner.
Losers_All(rows, winner) == {rows[i].bidder_id : i \in 1..Len(rows)}

\* SELECT DISTINCT b.bidder_id FROM bids b WHERE b.listing_id = id
\*   AND b.bidder_id != COALESCE(highest_bidder_id, zero uuid)
Losers(rows, winner) ==
  {rows[i].bidder_id : i \in 1..Len(rows)} \ {winner}

\* The notifications as they would be written without the test for a winner.
SettleNotifications_NoGuard(v_listing, rows) ==
  SetToBag({Notification(v_listing.highest_bidder_id, "AUCTION_WON", v_listing.id),
            Notification(v_listing.highest_bidder_id, "ORDER_CONFIRMED", v_listing.id)})
  (+) SetToBag({Notification(u, "AUCTION_LOST", v_listing.id) :
                  u \in Losers(rows, v_listing.highest_bidder_id)})

SettleNotifications(v_listing, rows) ==
  (IF v_listing.highest_bidder_id # NULL
     THEN SetToBag({Notification(v_listing.highest_bidder_id, "AUCTION_WON", v_listing.id),
                    Notification(v_listing.highest_bidder_id, "ORDER_CONFIRMED", v_listing.id)})
     ELSE EmptyBag)
  (+) SetToBag({Notification(u, "AUCTION_LOST", v_listing.id) :
                  u \in Losers(rows, v_listing.highest_bidder_id)})

\* A settlement that leaves the status as it is.
EndListing_Keep(rows, id) == rows

\* UPDATE public.listings SET status = 'ENDED' WHERE id = v_listing.id
EndListing(rows, id) == [rows EXCEPT ![id].status = "ENDED"]

\* The tables the sweeper writes, and the loop body for one row v_listing.
DB ==
  [listings |-> listings, bids |-> bids, balance |-> balance,
   transactions |-> transactions, notifications |-> notifications]

SettleRow(db, v_listing) ==
  LET w == v_listing.highest_bidder_id IN
  [db EXCEPT
     !.listings = EndListing(@, v_listing.id),
     !.balance = IF w # NULL THEN SettleWallet(@, w, v_listing.current_price) ELSE @,
     !.transactions = IF w # NULL THEN SettleLedger(@, v_listing) ELSE @,
     !.notifications = @ (+) SettleNotifications(v_listing, db.bids[v_listing.id])]

\* One pass of the loop body for one row of the cursor (the query has no
\* ORDER BY).  The UPDATE of the winner's wallet waits for the wallet row lock
\* when the row qualifies, and keeps the lock until the commit.
SweepRow(p) ==
  LET c == session[p] IN
  /\ c.pc = "sw_loop"
  /\ \E v \in c.rows :
       LET w == v.highest_bidder_id
           charged == w # NULL /\ WinnerCharged(balance, w, v.current_price)
           d == SettleRow(DB, v)
       IN
       /\ charged => walletLock[w] \in {0, p}
       /\ listings' = d.listings
       /\ balance' = d.balance
       /\ transactions' = d.transactions
       /\ notifications' = d.notifications
       /\ walletLock' = IF charged THEN LockRow(walletLock, w, p) ELSE walletLock
       /\ session' = [session EXCEPT ![p] =
            [c EXCEPT !.rows = @ \ {v}, !.v_count = @ + 1]]
  /\ reply' = NoReply
  /\ UNCHANGED <<clock, is_suspended, bids, listingLock>>

\* A complete run of end_expired_auctions at time now while no other
\* transaction is in progress (no row is locked): every order of the cursor.
RECURSIVE SettleAll(_, _, _)
SettleAll(db, rows, v_count) ==
  IF rows = {}
    THEN {[db |-> db, count |-> v_count]}
    ELSE UNION {SettleAll(SettleRow(db, v), rows \ {v}, v_count + 1) : v \in rows}

EndExpiredAuctions(db, now) ==
  SettleAll(db,
            Cursor(db.listings, {l \in DOMAIN db.listings : Expired(db.listings[l], now)}),
            0)

\* RETURN v_count; the commit releases the listing and wallet row locks.
SweepReturn(p) ==
  /\ session[p].pc = "sw_loop"
  /\ session[p].rows = {}
  /\ Returns(p, Count("end_expired_auctions", session[p].v_count))
  /\ listingLock' = Release(listingLock, p)
  /\ walletLock' = Release(walletLock, p)
  /\ UNCHANGED <<clock, store>>

\* ------------------------------------------------------- specifications
Buyers == {"b1", "b2"}
TopUps == {MaxAmount * v_fee}

Next ==
  \/ Tick
  \/ \E p \in Sessions : PlaceBidCall(p, {"l1"}, Buyers, Amounts)
  \/ \E p \in Sessions : PlaceBidBegin(p)
  \/ \E p \in Sessions : PlaceBidLockListing(p)
  \/ \E p \in Sessions : PlaceBidLockWallet(p)
  \/ \E p \in Sessions : CreditWallet(p, Accounts, TopUps)
  \/ \E p \in Sessions : DebitWalletLock(p, Buyers, Amounts)
  \/ \E p \in Sessions : DebitWalletUpdate(p)
  \/ \E p \in Sessions : ActivateListing(p, {"l1"}, {"s"})
  \/ \E p \in Sessions : ActivateFeeLockListing(p, {"l1"}, {"s"})
  \/ \E p \in Sessions : ActivateFeeLockWallet(p)
  \/ \E p \in Sessions : SweepBegin(p)
  \/ \E p \in Sessions : SweepRow(p)
  \/ \E p \in Sessions : SweepReturn(p)

Spec == Init /\ [][Next]_vars

\* ------------------------------------------------------ the seller's form
\* persistListing(status) of the list-item page: saveListing upserts the row
\* of the page's listingId with the values of the form.  The row is new, or
\* the form is saved again; current_price is the starting price,
\* highest_bidder_id is null, and bid_count is not among the columns.
UpsertListing(row, uid, starting_price, minimum_increment, end_time, status) ==
  [row EXCEPT !.seller_id = uid,
              !.starting_price = starting_price,
              !.minimum_increment = minimum_increment,
              !.current_price = starting_price,
              !.highest_bidder_id = NULL,
              !.end_time = end_time,
              !.status = status]

\* Save as Draft, or Save & Activate (validateForActivation wants the end
\* time ahead).  Row level security lets the seller of the row through; the
\* UPDATE half of the upsert waits for the row lock.
SaveListing(ls, us, prices, incs, ends) ==
  /\ \E l \in ls, u \in us, sp \in prices, inc \in incs, e \in ends,
        status \in {"DRAFT", "ACTIVE"} :
       /\ status = "ACTIVE" => e > clock
       /\ IF l \in DOMAIN listings
            THEN /\ listingLock[l] = 0
                 /\ listings[l].seller_id = u
                 /\ listings' = [listings EXCEPT ![l] =
                      UpsertListing(@, u, sp, inc, e, status)]
            ELSE listings' = listings @@ (l :> NewListing(u, sp, inc, e, status))
  /\ reply' = NoReply
  /\ UNCHANGED <<clock, is_suspended, bids, balance, transactions, notifications,
                 listingLock, walletLock, session>>

\* The sellers' forms and the bidders' calls: listings are created,
\* activated and saved again by the list-item page.
InitApp ==
  /\ clock = 0
  /\ is_suspended = [u \in Accounts |-> FALSE]
  /\ listings = [l \in {} |-> NULL]
  /\ bids = [l \in ListingIds |-> <<>>]
  /\ balance = [u \in Accounts |-> 0]
  /\ transactions = EmptyBag
  /\ notifications = EmptyBag
  /\ listingLock = [l \in ListingIds |-> 0]
  /\ walletLock = [u \in Accounts |-> 0]
  /\ session = [p \in Sessions |-> Idle]
  /\ reply = NoReply

NextApp ==
  \/ Tick
  \/ SaveListing({"l1"}, {"s"}, {v_fee}, {v_fee}, 1..MaxTime)
  \/ \E p \in Sessions : PlaceBidCall(p, {"l1"}, Buyers, Amounts)
  \/ \E p \in Sessions : PlaceBidBegin(p)
  \/ \E p \in Sessions : PlaceBidLockListing(p)
  \/ \E p \in Sessions : PlaceBidLockWallet(p)
  \/ \E p \in Sessions : CreditWallet(p, Buyers, TopUps)

SpecApp == InitApp /\ [][NextApp]_vars

\* The whole life of a listing, one caller at a time: the seller's form,
\* activate_listing, the bidders' calls and the sweeper.  A listing saved
\* again after its settlement can be settled again: the runs of the sweeper
\* stop once MaxNotices notifications are written.
NextLife ==
  \/ Tick
  \/ SaveListing({"l1"}, {"s"}, {v_fee}, {v_fee}, 1..MaxTime)
  \/ ActivateListing(1, {"l1"}, {"s"})
  \/ PlaceBidCall(1, {"l1"}, Buyers, Amounts)
  \/ PlaceBidBegin(1)
  \/ PlaceBidLockListing(1)
  \/ PlaceBidLockWallet(1)
  \/ CreditWallet(1, Buyers, TopUps)
  \/ BagCardinality(notifications) < MaxNotices /\ SweepBegin(1)
  \/ SweepRow(1)
  \/ SweepReturn(1)

SpecLife == InitApp /\ [][NextLife]_vars

\* ------------------------------------------------- one caller, every input
\* One session makes one call after the other, with every kind of argument:
\* the seller or an unknown user as the bidder, an unknown listing, the
\* amount 0, and accounts an administrator has suspended.
InitSeq ==
  /\ clock = 0
  /\ is_suspended \in [Accounts -> BOOLEAN]
  /\ listings = ("l1" :> NewListing("s", v_fee, v_fee, 1, "DRAFT"))
  /\ bids = [l \in ListingIds |-> <<>>]
  /\ balance = [u \in Accounts |-> 0]
  /\ transactions = EmptyBag
  /\ notifications = EmptyBag
  /\ listingLock = [l \in ListingIds |-> 0]
  /\ walletLock = [u \in Accounts |-> 0]
  /\ session = [p \in Sessions |-> Idle]
  /\ reply = NoReply

NextSeq ==
  \/ Tick
  \/ PlaceBidCall(1, {"l1", MissingListing}, UserIds, {0} \cup Amounts)
  \/ PlaceBidBegin(1)
  \/ PlaceBidLockListing(1)
  \/ PlaceBidLockWallet(1)
  \/ CreditWallet(1, Accounts, TopUps)
  \/ ActivateListing(1, {"l1"}, {"s"})
  \/ SweepBegin(1)
  \/ SweepRow(1)
  \/ SweepReturn(1)

SpecSeq == InitSeq /\ [][NextSeq]_vars

\* ------------------------------------------------------ two racing bids
\* Two place_bid calls are in flight on the ACTIVE listing, the one of b1
\* with amount A and the one of b2 with amount B, A < B, both at least the
\* minimum of the listing as it stands (without bids, or with one earlier bid
\* of b2).  Each bidder bids the whole balance of the wallet, so the two
\* amounts stay readable from the store.
\* One caller at a time on a listing whose seller chose either increment,
\* with amounts and top-ups that let three bids follow one another.
BidAmounts == {k * v_fee : k \in 0..MaxAmount + 1}
BidTopUps == {MaxAmount * v_fee, (MaxAmount + 1) * v_fee}

InitBids ==
  \E inc \in {v_fee, 2 * v_fee} :
    /\ clock = 0
    /\ is_suspended = [u \in Accounts |-> FALSE]
    /\ listings = ("l1" :> NewListing("s", v_fee, inc, 1, "DRAFT"))
    /\ bids = [l \in ListingIds |-> <<>>]
    /\ balance = [u \in Accounts |-> 0]
    /\ transactions = EmptyBag
    /\ notifications = EmptyBag
    /\ listingLock = [l \in ListingIds |-> 0]
    /\ walletLock = [u \in Accounts |-> 0]
    /\ session = [p \in Sessions |-> Idle]
    /\ reply = NoReply

NextBids ==
  \/ Tick
  \/ PlaceBidCall(1, {"l1"}, Accounts, BidAmounts)
  \/ PlaceBidBegin(1)
  \/ PlaceBidLockListing(1)
  \/ PlaceBidLockWallet(1)
  \/ CreditWallet(1, Buyers, BidTopUps)
  \/ ActivateListing(1, {"l1"}, {"s"})
  \/ SweepBegin(1)
  \/ SweepRow(1)
  \/ SweepReturn(1)

SpecBids == InitBids /\ [][NextBids]_vars

RaceAmounts == {k * v_fee : k \in 1..MaxRaise}

RaceListing(inc, bid) ==
  IF bid
    THEN UpdateListingBid(NewListing("s", v_fee, inc, MaxTime + 1, "ACTIVE"), "b2", v_fee)
    ELSE NewListing("s", v_fee, inc, MaxTime + 1, "ACTIVE")

InitRace ==
  \E inc \in {v_fee, 2 * v_fee}, bid \in BOOLEAN, A \in RaceAmounts, B \in RaceAmounts :
    /\ A < B
    /\ A >= MinimumBid(RaceListing(inc, bid))
    /\ clock = 0
    /\ is_suspended = [u \in Accounts |-> FALSE]
    /\ listings = ("l1" :> RaceListing(inc, bid))
    /\ bids = [l \in ListingIds |->
                 IF l = "l1" /\ bid THEN InsertBid(<<>>, "b2", v_fee) ELSE <<>>]
    /\ balance = ("s" :> 0) @@ ("b1" :> A) @@ ("b2" :> B)
    /\ transactions = SetToBag({Transaction("b1", "TOP_UP", A, NULL),
                                Transaction("b2", "TOP_UP", B, NULL)})
    /\ notifications = EmptyBag
    /\ listingLock = [l \in ListingIds |-> 0]
    /\ walletLock = [u \in Accounts |-> 0]
    /\ session = [p \in Sessions |->
                    IF p = 1 THEN [pc |-> "pb_begin", p_listing_id |-> "l1",
                                   p_bidder_id |-> "b1", p_amount |-> A]
                    ELSE IF p = 2 THEN [pc |-> "pb_begin", p_listing_id |-> "l1",
                                        p_bidder_id |-> "b2", p_amount |-> B]
                    ELSE Idle]
    /\ reply = NoReply

NextRace ==
  \/ \E p \in Sessions : PlaceBidBegin(p)
  \/ \E p \in Sessions : PlaceBidLockListing(p)
  \/ \E p \in Sessions : PlaceBidLockWallet(p)

SpecRace == InitRace /\ [][NextRace]_vars

\* ------------------------------------------- the client's wallet library
\* Row level security: the commands for which a table has a policy that lets
\* a signed-in user through on the own rows.  wallets and transactions have a
\* policy for SELECT only.
Policies ==
  {<<"wallets", "SELECT">>, <<"transactions", "SELECT">>,
   <<"listings", "SELECT">>, <<"listings", "INSERT">>, <<"listings", "UPDATE">>}

Permitted(table, command) == <<table, command>> \in Policies

\* getBalance: data ? Number(data.balance) : 0
getBalance(userId) ==
  IF Permitted("wallets", "SELECT") /\ userId \in DOMAIN balance
    THEN balance[userId]
    ELSE 0

\* supabase.from("wallets").update({balance: v}).eq("user_id", userId): the
\* rows the policies let through; the error of a refused write is not looked at.
UpdateWallet(bal, userId, v) ==
  IF Permitted("wallets", "UPDATE") /\ userId \in DOMAIN bal /\ v >= 0
    THEN [bal EXCEPT ![userId] = v]
    ELSE bal

\* supabase.from("transactions").insert(row)
InsertTransaction(txs, row) ==
  IF Permitted("transactions", "INSERT")
    THEN txs (+) SetToBag({row})
    ELSE txs

\* A page calls creditPoints(userId, amount, description).
CreditPointsCall(p, us, as) ==
  /\ session[p] = Idle
  /\ \E u \in us, a \in as :
       session' = [session EXCEPT ![p] =
         [pc |-> "cp_read", userId |-> u, amount |-> a]]
  /\ reply' = NoReply
  /\ UNCHANGED <<clock, store, listingLock, walletLock>>

\* const currentBalance = await getBalance(userId)
CreditPointsRead(p) ==
  LET c == session[p] IN
  /\ c.pc = "cp_read"
  /\ session' = [session EXCEPT ![p] =
       [pc |-> "cp_update", userId |-> c.userId, amount |-> c.amount,
        currentBalance |-> getBalance(c.userId)]]
  /\ reply' = NoReply
  /\ UNCHANGED <<clock, store, listingLock, walletLock>>

\* update({balance: currentBalance + amount}), in a transaction of its own;
\* an UPDATE that reaches the row waits for its lock.
CreditPointsUpdate(p) ==
  LET c == session[p] IN
  /\ c.pc = "cp_update"
  /\ (Permitted("wallets", "UPDATE") /\ c.userId \in DOMAIN walletLock)
       => walletLock[c.userId] = 0
  /\ balance' = UpdateWallet(balance, c.userId, c.currentBalance + c.amount)
  /\ session' = [session EXCEPT ![p].pc = "cp_insert"]
  /\ reply' = NoReply
  /\ UNCHANGED <<clock, is_suspended, listings, bids, transactions, notifications,
                 listingLock, walletLock>>

\* insert({type: "TOP_UP", amount}); the promise resolves.
CreditPointsInsert(p) ==
  LET c == session[p] IN
  /\ c.pc = "cp_insert"
  /\ transactions' = InsertTransaction(transactions,
                        Transaction(c.userId, "TOP_UP", c.amount, NULL))
  /\ Returns(p, Reply("creditPoints", OK))
  /\ UNCHANGED <<clock, is_suspended, listings, bids, balance, notifications,
                 listingLock, walletLock>>

\* A caller calls debitPoints(userId, amount, description).
DebitPointsCall(p, us, as) ==
  /\ session[p] = Idle
  /\ \E u \in us, a \in as :
       session' = [session EXCEPT ![p] =
         [pc |-> "dp_read", userId |-> u, amount |-> a]]
  /\ reply' = NoReply
  /\ UNCHANGED <<clock, store, listingLock, walletLock>>

\* const balance = await getBalance(userId); if (balance < amount) return
\* {success: false, error}
DebitPointsRead(p) ==
  LET c == session[p] IN
  /\ c.pc = "dp_read"
  /\ IF getBalance(c.userId) < c.amount
       THEN Returns(p, Reply("debitPoints", E_NeedPoints))
       ELSE /\ session' = [session EXCEPT ![p] =
                 [pc |-> "dp_update", userId |-> c.userId, amount |-> c.amount,
                  balance |-> getBalance(c.userId)]]
            /\ reply' = NoReply
  /\ UNCHANGED <<clock, store, listingLock, walletLock>>

\* update({balance: balance - amount}), in a transaction of its own.
DebitPointsUpdate(p) ==
  LET c == session[p] IN
  /\ c.pc = "dp_update"
  /\ (Permitted("wallets", "UPDATE") /\ c.userId \in DOMAIN walletLock)
       => walletLock[c.userId] = 0
  /\ balance' = UpdateWallet(balance, c.userId, c.balance - c.amount)
  /\ session' = [session EXCEPT ![p].pc = "dp_insert"]
  /\ reply' = NoReply
  /\ UNCHANGED <<clock, is_suspended, listings, bids, transactions, notifications,
                 listingLock, walletLock>>

\* insert({type: "BID_DEDUCTION", amount: -amount}); return {success: true}
DebitPointsInsert(p) ==
  LET c == session[p] IN
  /\ c.pc = "dp_insert"
  /\ transactions' = InsertTransaction(transactions,
                        Transaction(c.userId, "BID_DEDUCTION", 0 - c.amount, NULL))
  /\ Returns(p, Reply("debitPoints", OK))
  /\ UNCHANGED <<clock, is_suspended, listings, bids, balance, notifications,
                 listingLock, walletLock>>

\* Two pending debitPoints calls on the wallet of b1, which holds X points:
\* each amount is covered by X, the two together are not.
InitDebitRace ==
  \E X \in RaceAmounts, a \in RaceAmounts, b \in RaceAmounts :
    /\ X >= a /\ X >= b /\ X < a + b
    /\ clock = 0
    /\ is_suspended = [u \in Accounts |-> FALSE]
    /\ listings = ("l1" :> NewListing("s", v_fee, v_fee, 1, "DRAFT"))
    /\ bids = [l \in ListingIds |-> <<>>]
    /\ balance = [u \in Accounts |-> IF u = "b1" THEN X ELSE 0]
    /\ transactions = SetToBag({Transaction("b1", "TOP_UP", X, NULL)})
    /\ notifications = EmptyBag
    /\ listingLock = [l \in ListingIds |-> 0]
    /\ walletLock = [u \in Accounts |-> 0]
    /\ session = [p \in Sessions |->
                    IF p = 1 THEN [pc |-> "dp_read", userId |-> "b1", amount |-> a]
                    ELSE IF p = 2 THEN [pc |-> "dp_read", userId |-> "b1", amount |-> b]
                    ELSE Idle]
    /\ reply = NoReply

NextDebitRace ==
  \/ \E p \in Sessions : DebitPointsRead(p)
  \/ \E p \in Sessions : DebitPointsUpdate(p)
  \/ \E p \in Sessions : DebitPointsInsert(p)

SpecDebitRace == InitDebitRace /\ [][NextDebitRace]_vars

\* The wallet operations of the database and of the client's library side by
\* side; the payment page passes amounts >= 1 to creditPoints.
NextWallet ==
  \/ \E p \in Sessions : CreditWallet(p, Buyers, {0} \cup TopUps)
  \/ \E p \in Sessions : DebitWalletLock(p, Buyers, {0} \cup Amounts)
  \/ \E p \in Sessions : DebitWalletUpdate(p)
  \/ \E p \in Sessions : CreditPointsCall(p, Buyers, TopUps)
  \/ \E p \in Sessions : CreditPointsRead(p)
  \/ \E p \in Sessions : CreditPointsUpdate(p)
  \/ \E p \in Sessions : CreditPointsInsert(p)
  \/ \E p \in Sessions : DebitPointsCall(p, Buyers, Amounts)
  \/ \E p \in Sessions : DebitPointsRead(p)
  \/ \E p \in Sessions : DebitPointsUpdate(p)
  \/ \E p \in Sessions : DebitPointsInsert(p)

SpecWallet == Init /\ [][NextWallet]_vars

\* ------------------------------------------------------ two racing sweepers
\* Four ACTIVE listings of seller s, each with one accepted bid of v_fee by a
\* buyer who holds enough points for two wins.  Clock 0 is the instant at which
\* the first of them end; the others end then or one tick later.
SweepListings == {"l1", "l2", "l3", "l4"}

InitSweepRace ==
  \E winner \in [SweepListings -> Buyers], ends \in [SweepListings -> Times] :
    /\ clock = 0
    /\ is_suspended = [u \in Accounts |-> FALSE]
    /\ listings = [l \in SweepListings |->
                     UpdateListingBid(NewListing("s", v_fee, v_fee, ends[l], "ACTIVE"),
                                      winner[l], v_fee)]
    /\ bids = [l \in SweepListings |-> InsertBid(<<>>, winner[l], v_fee)]
    /\ balance = [u \in Accounts |-> IF u \in Buyers THEN 2 * v_fee ELSE 0]
    /\ transactions = SetToBag({Transaction(u, "TOP_UP", 2 * v_fee, NULL) : u \in Buyers})
    /\ notifications = EmptyBag
    /\ listingLock = [l \in SweepListings |-> 0]
    /\ walletLock = [u \in Accounts |-> 0]
    /\ session = [p \in Sessions |-> Idle]
    /\ reply = NoReply

NextSweepRace ==
  \/ Tick
  \/ \E p \in Sessions : SweepBegin(p)
  \/ \E p \in Sessions : SweepRow(p)
  \/ \E p \in Sessions : SweepReturn(p)

SpecSweepRace == InitSweepRace /\ [][NextSweepRace]_vars

\* ------------------------------------- one bidder, two listings, two bids
\* Two running listings without bids and two pending place_bid calls of b1,
\* one on each, with amounts a and b that the X points of b1 cover one by
\* one but not together.
InitTwoBids ==
  \E X \in RaceAmounts, a \in RaceAmounts, b \in RaceAmounts :
    /\ X >= a /\ X >= b /\ X < a + b
    /\ clock = 0
    /\ is_suspended = [u \in Accounts |-> FALSE]
    /\ listings = [l \in ListingIds |-> NewListing("s", v_fee, v_fee, MaxTime + 1, "ACTIVE")]
    /\ bids = [l \in ListingIds |-> <<>>]
    /\ balance = [u \in Accounts |-> IF u = "b1" THEN X ELSE 0]
    /\ transactions = SetToBag({Transaction("b1", "TOP_UP", X, NULL)})
    /\ notifications = EmptyBag
    /\ listingLock = [l \in ListingIds |-> 0]
    /\ walletLock = [u \in Accounts |-> 0]
    /\ session = [p \in Sessions |->
                    IF p = 1 THEN [pc |-> "pb_begin", p_listing_id |-> "l1",
                                   p_bidder_id |-> "b1", p_amount |-> a]
                    ELSE IF p = 2 THEN [pc |-> "pb_begin", p_listing_id |-> "l2",
                                        p_bidder_id |-> "b1", p_amount |-> b]
                    ELSE Idle]
    /\ reply = NoReply

NextTwoBids ==
  \/ \E p \in Sessions : PlaceBidBegin(p)
  \/ \E p \in Sessions : PlaceBidLockListing(p)
  \/ \E p \in Sessions : PlaceBidLockWallet(p)

SpecTwoBids == InitTwoBids /\ [][NextTwoBids]_vars

\* ------------------------------------------ placeBid of the client library
\* The post-bid notifications as they would be with an OUTBID for every
\* previous highest bidder, the new bidder included.
PostBidNotices_NoGuard(bidderId, previous_highest_bidder_id, seller_id, listingId) ==
  {Notification(bidderId, "BID_PLACED", listingId),
   Notification(bidderId, "HIGHEST_BIDDER", listingId)}
  \cup (IF previous_highest_bidder_id # NULL
          THEN {Notification(previous_highest_bidder_id, "OUTBID", listingId)}
          ELSE {})
  \cup (IF seller_id # NULL
          THEN {Notification(seller_id, "NEW_BID_RECEIVED", listingId)}
          ELSE {})

\* notifyBidPlaced, notifyHighestBidder, notifyOutbid (if there was another
\* highest bidder) and notifyNewBidReceived, as placeBid calls them once
\* place_bid has returned success.
PostBidNotices(bidderId, previous_highest_bidder_id, seller_id, listingId) ==
  {Notification(bidderId, "BID_PLACED", listingId),
   Notification(bidderId, "HIGHEST_BIDDER", listingId)}
  \cup (IF previous_highest_bidder_id # NULL /\ previous_highest_bidder_id # bidderId
          THEN {Notification(previous_highest_bidder_id, "OUTBID", listingId)}
          ELSE {})
  \cup (IF seller_id # NULL
          THEN {Notification(seller_id, "NEW_BID_RECEIVED", listingId)}
          ELSE {})

\* The last step of place_bid as the client's placeBid sees it: the function
\* commits and returns previous_highest_bidder_id and seller_id; on success
\* placeBid starts the notification helpers without awaiting them and has
\* { success: true } as its result, otherwise it returns the error.
PlaceBidRpcReturn(p) ==
  LET c == session[p]
      l == c.p_listing_id
      u == c.p_bidder_id
      v_wallet_balance == IF u \in DOMAIN balance THEN <<balance[u]>> ELSE <<>>
      e == WalletChecks(c.v_listing, v_wallet_balance, u, c.p_amount)
  IN
  /\ c.pc = "pb_wallet"
  /\ u \in DOMAIN walletLock => walletLock[u] = 0
  /\ IF Commits(e)
       THEN /\ bids' = [bids EXCEPT ![l] = InsertBid(@, u, c.p_amount)]
            /\ listings' = [listings EXCEPT ![l] = UpdateListingBid(@, u, c.p_amount)]
       ELSE UNCHANGED <<listings, bids>>
  /\ session' = [session EXCEPT ![p] =
       IF e = OK
         THEN [pc |-> "notify", listingId |-> l, bidderId |-> u, amount |-> c.p_amount,
               result |-> Reply("placeBid", OK),
               pending |-> PostBidNotices(u, c.v_listing.highest_bidder_id,
                                          c.v_listing.seller_id, l)]
         ELSE Idle]
  /\ reply' = Reply("place_bid", e)
  /\ listingLock' = Release(listingLock, p)
  /\ UNCHANGED <<clock, is_suspended, balance, transactions, notifications, walletLock>>

\* addNotification: one insert into notifications, a request of its own that
\* either stores the row or fails (the error is returned and dropped by the
\* helper).  The helpers run unawaited, so they finish in any order.
AddNotification(p) ==
  /\ session[p].pc = "notify"
  /\ \E n \in session[p].pending, stored \in BOOLEAN :
       /\ notifications' = IF stored THEN notifications (+) SetToBag({n})
                                     ELSE notifications
       /\ session' = [session EXCEPT ![p] =
            IF session[p].pending = {n}
              THEN Idle
              ELSE [session[p] EXCEPT !.pending = @ \ {n}]]
       /\ reply' = IF session[p].pending = {n} THEN session[p].result ELSE NoReply
  /\ UNCHANGED <<clock, is_suspended, listings, bids, balance, transactions,
                 listingLock, walletLock>>

\* The account that is signed in at client p (userId of the listing page).
SignedIn(p) == IF p = 1 THEN "b1" ELSE "b2"

\* A running listing, funded buyers, and clients that call placeBid.
InitNotify ==
  /\ clock = 0
  /\ is_suspended = [u \in Accounts |-> FALSE]
  /\ listings = ("l1" :> NewListing("s", v_fee, v_fee, MaxTime + 1, "ACTIVE"))
  /\ bids = [l \in ListingIds |-> <<>>]
  /\ balance = [u \in Accounts |-> IF u \in Buyers THEN MaxRaise * v_fee ELSE 0]
  /\ transactions = SetToBag({Transaction(u, "TOP_UP", MaxRaise * v_fee, NULL) : u \in Buyers})
  /\ notifications = EmptyBag
  /\ listingLock = [l \in ListingIds |-> 0]
  /\ walletLock = [u \in Accounts |-> 0]
  /\ session = [p \in Sessions |-> Idle]
  /\ reply = NoReply

NextNotify ==
  \/ \E p \in Sessions :
       /\ BagCardinality(notifications) < MaxNotices
       /\ PlaceBidCall(p, {"l1"}, {SignedIn(p)}, BidAmounts)
  \/ \E p \in Sessions : PlaceBidBegin(p)
  \/ \E p \in Sessions : PlaceBidLockListing(p)
  \/ \E p \in Sessions : PlaceBidRpcReturn(p)
  \/ \E p \in Sessions : AddNotification(p)

SpecNotify == InitNotify /\ [][NextNotify]_vars

\* ------------------------------------- placeBid of the localStorage library
E_Storage == "QuotaExceededError"

\* The four helpers in the order in which the synchronous placeBid calls them.
PostBidCalls(bidderId, previousHighestBidderId, seller_id, listingId) ==
  <<Notification(bidderId, "BID_PLACED", listingId),
    Notification(bidderId, "HIGHEST_BIDDER", listingId)>>
  \o (IF previousHighestBidderId # NULL /\ previousHighestBidderId # bidderId
        THEN <<Notification(previousHighestBidderId, "OUTBID", listingId)>>
        ELSE <<>>)
  \o <<Notification(seller_id, "NEW_BID_RECEIVED", listingId)>>

\* listing.current_price = amount; listing.highest_bidder_id = bidderId;
\* saveListing(listing)
LocalUpdateListing(row, bidderId, amount) ==
  [row EXCEPT !.current_price = amount, !.highest_bidder_id = bidderId]

\* placeBid(listingId, bidderId, amount) of the localStorage library, one
\* synchronous run: the checks, the bid pushed to the stored bids, the listing
\* saved, then the helpers one after the other.  Each helper ends in
\* localStorage.setItem, which throws when the storage is full; nothing
\* catches it, so the first helper that fails (the k+1-th) ends placeBid with
\* the exception, after the bid, the listing and k notifications are stored.
LocalPlaceBid(ls, us, as) ==
  /\ \E l \in ls, u \in us, a \in as :
       IF l \notin DOMAIN listings
         THEN /\ reply' = Reply("placeBid", E_ListingNotFound)
              /\ UNCHANGED <<listings, bids, notifications>>
         ELSE
           LET listing == listings[l]
               e1 == ListingChecks(listing, u, a, clock)
               e == IF e1 # OK THEN e1 ELSE WalletChecks(listing, <<balance[u]>>, u, a)
               calls == PostBidCalls(u, listing.highest_bidder_id, listing.seller_id, l)
           IN IF e # OK
                THEN /\ reply' = Reply("placeBid", e)
                     /\ UNCHANGED <<listings, bids, notifications>>
                ELSE /\ Len(bids[l]) < MaxBids
                     /\ bids' = [bids EXCEPT ![l] = InsertBid(@, u, a)]
                     /\ listings' = [listings EXCEPT ![l] = LocalUpdateListing(@, u, a)]
                     /\ \E k \in 0..Len(calls) :
                          /\ notifications' = notifications
                               (+) BagOfAll(LAMBDA i : calls[i], SetToBag(1..k))
                          /\ reply' = IF k = Len(calls)
                                        THEN Reply("placeBid", OK)
                                        ELSE Reply("placeBid", E_Storage)
  /\ UNCHANGED <<clock, is_suspended, balance, transactions, listingLock, walletLock,
                 session>>

\* The browser's store with a running listing of another account and points
\* in the wallets of the buyers.
InitLocal ==
  \E inc \in {v_fee, 2 * v_fee} :
    /\ clock = 0
    /\ is_suspended = [u \in Accounts |-> FALSE]
    /\ listings = ("l1" :> NewListing("s", v_fee, inc, MaxTime, "ACTIVE"))
    /\ bids = [l \in ListingIds |-> <<>>]
    /\ balance = [u \in Accounts |-> IF u \in Buyers THEN MaxRaise * v_fee ELSE 0]
    /\ transactions = SetToBag({Transaction(u, "TOP_UP", MaxRaise * v_fee, NULL) : u \in Buyers})
    /\ notifications = EmptyBag
    /\ listingLock = [l \in ListingIds |-> 0]
    /\ walletLock = [u \in Accounts |-> 0]
    /\ session = [p \in Sessions |-> Idle]
    /\ reply = NoReply

NextLocal ==
  \/ Tick
  \/ LocalPlaceBid({"l1", MissingListing}, Accounts, RaceAmounts)

SpecLocal == InitLocal /\ [][NextLocal]_vars

\* ------------------------------------------------ callers of activate_listing
\* The seller's draft, and activate_listing (with and without the listing
\* fee) called for it, or for a listing that does not exist, by the seller and
\* by another account, before and after the seller's wallet is topped up.
NextActivate ==
  \/ Tick
  \/ \E p \in Sessions : CreditWallet(p, {"s"}, {v_fee})
  \/ \E p \in Sessions : ActivateListing(p, {"l1", MissingListing}, {"s", "b1"})
  \/ \E p \in Sessions : ActivateFeeLockListing(p, {"l1", MissingListing}, {"s", "b1"})
  \/ \E p \in Sessions : ActivateFeeLockWallet(p)
  \/ \E p \in Sessions : SweepBegin(p)
  \/ \E p \in Sessions : SweepRow(p)
  \/ \E p \in Sessions : SweepReturn(p)

SpecActivate == Init /\ [][NextActivate]_vars

\* ------------------------------------------- the scheduler and the bidders
\* A running listing and funded buyers; session 1 is the scheduler (pg_cron
\* calls end_expired_auctions every minute), the other sessions are bidders.
\* The scheduler keeps calling and finishes its runs, and every place_bid
\* that has started finishes.
Scheduler == 1
Bidders == Sessions \ {Scheduler}

InitSkip ==
  /\ clock = 0
  /\ is_suspended = [u \in Accounts |-> FALSE]
  /\ listings = ("l1" :> NewListing("s", v_fee, v_fee, 1, "ACTIVE"))
  /\ bids = [l \in ListingIds |-> <<>>]
  /\ balance = [u \in Accounts |-> IF u \in Buyers THEN MaxAmount * v_fee ELSE 0]
  /\ transactions = SetToBag({Transaction(u, "TOP_UP", MaxAmount * v_fee, NULL) :
                                u \in Buyers})
  /\ notifications = EmptyBag
  /\ listingLock = [l \in ListingIds |-> 0]
  /\ walletLock = [u \in Accounts |-> 0]
  /\ session = [p \in Sessions |-> Idle]
  /\ reply = NoReply

NextSkip ==
  \/ Tick
  \/ \E p \in Bidders : PlaceBidCall(p, {"l1"}, Buyers, Amounts)
  \/ \E p \in Bidders : PlaceBidBegin(p)
  \/ \E p \in Bidders : PlaceBidLockListing(p)
  \/ \E p \in Bidders : PlaceBidLockWallet(p)
  \/ SweepBegin(Scheduler)
  \/ SweepRow(Scheduler)
  \/ SweepReturn(Scheduler)

SpecSkip ==
  /\ InitSkip
  /\ [][NextSkip]_vars
  /\ WF_vars(SweepBegin(Scheduler))
  /\ WF_vars(SweepRow(Scheduler))
  /\ WF_vars(SweepReturn(Scheduler))
  /\ \A p \in Bidders :
       WF_vars(PlaceBidBegin(p) \/ PlaceBidLockListing(p) \/ PlaceBidLockWallet(p))

\* ------------------------------------------------------------- properties
\* The place_bid call of session p returns in this step.
PlaceBidReturns(p) ==
  /\ session[p].pc \in {"pb_begin", "pb_listing", "pb_wallet"}
  /\ session'[p] = Idle

Quiescent == \A p \in Sessions : session[p] = Idle

LastBid(l) == bids[l][Len(bids[l])]

\* The sum of the amounts of the transactions rows of user u.
RECURSIVE SumAmounts(_, _)
SumAmounts(txs, rows) ==
  IF rows = {}
    THEN 0
    ELSE LET t == CHOOSE x \in rows : TRUE
         IN CopiesIn(t, txs) * t.amount + SumAmounts(txs, rows \ {t})

LedgerSum(u) ==
  SumAmounts(transactions, {t \in BagToSet(transactions) : t.user_id = u})

\* The rows of a bag that satisfy a test, counted with their copies.
CountRows(bag, Test(_)) ==
  LET RECURSIVE N(_)
      N(rows) == IF rows = {}
                   THEN 0
                   ELSE LET t == CHOOSE x \in rows : TRUE
                        IN CopiesIn(t, bag) + N(rows \ {t})
  IN N({t \in BagToSet(bag) : Test(t)})

\* C1: for every listing, each accepted bid is strictly greater than
\* every earlier accepted bid on that listing and is at least the minimum
\* required of the listing at the moment it is accepted (current_price for the
\* first bid, current_price + minimum_increment afterwards); current_price
\* never decreases.
C1_BidsIncrease ==
  [][\A l \in DOMAIN listings :
       /\ listings'[l].current_price >= listings[l].current_price
       /\ bids'[l] # bids[l] =>
            LET b == bids'[l][Len(bids'[l])] IN
            /\ SubSeq(bids'[l], 1, Len(bids[l])) = bids[l]
            /\ b.amount >= MinimumBid(listings[l])
            /\ \A i \in 1..Len(bids[l]) : b.amount > bids[l][i].amount]_vars

\* A second bid has been accepted on a listing, above the first.
C1_Witness ==
  /\ Len(bids["l1"]) >= 2
  /\ bids["l1"][2].amount > bids["l1"][1].amount

\* C3: in every reachable state bid_count of a listing equals the
\* number of Bid rows of the listing; an accepted place_bid adds exactly one
\* to both, a rejected one changes neither.
C3_BidCount ==
  [][\A l \in DOMAIN listings :
       /\ listings[l].bid_count = Len(bids[l])
       /\ listings'[l].bid_count = Len(bids'[l])
       /\ \A p \in Sessions :
            PlaceBidReturns(p) /\ session[p].p_listing_id = l =>
              IF reply'.success
                THEN /\ Len(bids'[l]) = Len(bids[l]) + 1
                     /\ listings'[l].bid_count = listings[l].bid_count + 1
                ELSE /\ bids'[l] = bids[l]
                     /\ listings'[l].bid_count = listings[l].bid_count]_vars

\* A place_bid has just been rejected on a listing that holds accepted bids.
C3_Witness ==
  /\ reply.op = "place_bid"
  /\ ~reply.success
  /\ listings["l1"].bid_count >= 1
  /\ Len(bids["l1"]) >= 1

\* C5: running end_expired_auctions twice in a row, with no other
\* operation in between, leaves after the second run the state the first run
\* left, and the second run returns 0.
C5_SweepIdempotent ==
  Quiescent =>
    \A r1 \in EndExpiredAuctions(DB, clock) :
      \A r2 \in EndExpiredAuctions(r1.db, clock) :
        r2.count = 0 /\ r2.db = r1.db

\* A run that settles an expired listing with a winner and a loser is due.
C5_Witness ==
  /\ Quiescent
  /\ Expired(listings["l1"], clock)
  /\ listings["l1"].bid_count >= 2
  /\ \E r1 \in EndExpiredAuctions(DB, clock) : r1.count = 1 /\ r1.db # DB

\* C6: under concurrent sweepers, and a sweeper racing place_bid on the
\* expiring listing, each listing is settled at most once: at most one
\* AUCTION_WIN_DEDUCTION ledger entry (hence at most one wallet debit), at most
\* one AUCTION_WON and one ORDER_CONFIRMED notification per listing, and at
\* most one AUCTION_LOST per listing and bidder.
C6_SettledOnce ==
  \A l \in ListingIds :
    /\ CountRows(transactions,
         LAMBDA t : t.type = "AUCTION_WIN_DEDUCTION" /\ t.listing_id = l) <= 1
    /\ CountRows(notifications,
         LAMBDA n : n.type = "AUCTION_WON" /\ n.listing_id = l) <= 1
    /\ CountRows(notifications,
         LAMBDA n : n.type = "ORDER_CONFIRMED" /\ n.listing_id = l) <= 1
    /\ \A u \in UserIds :
         CopiesIn(Notification(u, "AUCTION_LOST", l), notifications) <= 1

\* A listing has been settled with a winner and a loser while the other
\* session is inside a sweeper run of its own.
C6_Witness ==
  /\ listings["l1"].status = "ENDED"
  /\ CountRows(transactions,
       LAMBDA t : t.type = "AUCTION_WIN_DEDUCTION" /\ t.listing_id = "l1") = 1
  /\ CountRows(notifications,
       LAMBDA n : n.type = "AUCTION_LOST" /\ n.listing_id = "l1") = 1
  /\ \A p \in Sessions : session[p].pc = "sw_loop"

\* C7: the balance of every wallet is >= 0 in every reachable state,
\* and a debit_wallet whose amount exceeds the balance is rejected with
\* 'Insufficient bid points.' and has no effect.
C7_BalanceNonNegative ==
  [][/\ \A u \in DOMAIN balance : balance[u] >= 0 /\ balance'[u] >= 0
     /\ \A p \in Sessions :
          (/\ session[p].pc = "dw_update"
           /\ session'[p] = Idle
           /\ session[p].p_amount > balance[session[p].p_user_id])
          => /\ reply' = Reply("debit_wallet", E_InsufficientPoints)
             /\ store' = store]_vars

\* A debit above the balance of a funded wallet has just been rejected.
C7_Witness ==
  /\ reply = Reply("debit_wallet", E_InsufficientPoints)
  /\ \E u \in Buyers : balance[u] > 0 /\ balance[u] < MaxAmount * v_fee

\* C8: for every user the sum of the amounts of the user's ledger
\* entries equals the balance of the user's wallet, in every reachable state,
\* also after the settlement of a winner whose balance is below the price.
C8_LedgerMatchesBalance ==
  \A u \in DOMAIN balance : LedgerSum(u) = balance[u]

\* The bid of bidder u with amount a is among the Bid rows of l1.
Accepted(u, a) ==
  \E i \in 1..Len(bids["l1"]) : bids["l1"][i] = [bidder_id |-> u, amount |-> a]

\* C2: given two concurrent place_bid calls by two different eligible
\* bidders on the same ACTIVE listing with amounts A < B, both at least the
\* minimum of the same prior state, in every interleaving the final listing
\* has current_price = B and highest_bidder = the bidder of B.
C2_RaceMax ==
  Quiescent =>
    /\ listings["l1"].current_price = balance["b2"]
    /\ listings["l1"].highest_bidder_id = "b2"

\* C2, amended: the final listing carries B and its bidder whenever
\* B >= A + minimum_increment or the call of B takes the listing first; when
\* the call of A takes the listing first and B < A + minimum_increment, B is
\* rejected and the final listing carries A and its bidder.  The listing
\* always carries the last accepted of the two, and bid_count counts them.
C2_RaceOutcome ==
  Quiescent =>
    LET A == balance["b1"]
        B == balance["b2"]
        row == listings["l1"]
        n == Len(bids["l1"])
    IN
    /\ row.bid_count = n
    /\ IF B >= A + row.minimum_increment \/ ~Accepted("b1", A)
         THEN /\ Accepted("b2", B)
              /\ LastBid("l1") = [bidder_id |-> "b2", amount |-> B]
              /\ row.current_price = B
              /\ row.highest_bidder_id = "b2"
         ELSE /\ ~Accepted("b2", B)
              /\ LastBid("l1") = [bidder_id |-> "b1", amount |-> A]
              /\ row.current_price = A
              /\ row.highest_bidder_id = "b1"

\* Both calls have returned, the one of A was first at the listing and the
\* one of B, less than an increment above A, was rejected.
C2_Witness ==
  /\ Quiescent
  /\ reply = Reply("place_bid", E_BelowMinimum)
  /\ Accepted("b1", balance["b1"])
  /\ balance["b2"] < balance["b1"] + listings["l1"].minimum_increment
  /\ listings["l1"].highest_bidder_id = "b1"

\* C4: in every reachable state the last Bid row of a listing that has
\* Bid rows carries the listing's current_price and highest_bidder, and a
\* listing without Bid rows has highest_bidder null and current_price equal to
\* starting_price.
C4_LastBidIsPrice ==
  \A l \in DOMAIN listings :
    IF bids[l] # <<>>
      THEN /\ LastBid(l).amount = listings[l].current_price
           /\ LastBid(l).bidder_id = listings[l].highest_bidder_id
      ELSE /\ listings[l].highest_bidder_id = NULL
           /\ listings[l].current_price = listings[l].starting_price

\* The place_bid call of session p that returns names the seller of its
\* listing as the bidder.
SelfBid(p) ==
  /\ PlaceBidReturns(p)
  /\ session[p].p_listing_id \in DOMAIN listings
  /\ listings[session[p].p_listing_id].seller_id = session[p].p_bidder_id

\* C9: place_bid with the seller of the listing as the bidder always
\* fails with 'You cannot bid on your own listing.', for every amount and
\* every state of the listing and of the account (any status, expired or not,
\* suspended or not, any balance).
C9_SelfBidForbidden ==
  [][\A p \in Sessions :
       SelfBid(p) => reply' = Reply("place_bid", E_SelfBid)]_vars

\* C9, amended: place_bid with the seller of the listing as the bidder
\* always fails and changes nothing, for every amount and every state of the
\* listing; the rejection is 'You cannot bid on your own listing.' unless the
\* seller is suspended, and 'Your account is suspended.' when the seller is.
C9_SelfBidRejected ==
  [][\A p \in Sessions :
       SelfBid(p) =>
         /\ reply' = Reply("place_bid",
                           IF is_suspended[session[p].p_bidder_id]
                             THEN E_Suspended ELSE E_SelfBid)
         /\ store' = store]_vars

\* The seller, funded and not suspended, has just been refused a bid on the
\* seller's own ACTIVE listing.
C9_Witness ==
  /\ reply = Reply("place_bid", E_SelfBid)
  /\ ~is_suspended["s"]
  /\ balance["s"] >= MaxAmount * v_fee
  /\ listings["l1"].status = "ACTIVE"
  /\ listings["l1"].end_time > clock

\* C10: every rejected place_bid leaves the store unchanged: no Bid
\* row, the listing as it was, no wallet or ledger change, no notification.
C10_RejectedNoEffect ==
  [][\A p \in Sessions :
       PlaceBidReturns(p) /\ ~reply'.success => store' = store]_vars

\* A bid below the minimum has just been rejected on a listing that holds a
\* bid.
C10_Witness ==
  /\ reply = Reply("place_bid", E_BelowMinimum)
  /\ Len(bids["l1"]) >= 1
  /\ listings["l1"].status = "ACTIVE"

\* The nine preconditions of place_bid(l, u, a), in the order of the
\* specification, each TRUE when the call violates it in the current store at
\* the time t at which the call started.
Violated(l, u, a, t) ==
  LET known == l \in DOMAIN listings
      row == listings[l]
      minimum == IF row.highest_bidder_id = NULL
                   THEN row.current_price
                   ELSE row.current_price + row.minimum_increment
  IN
  << u \in DOMAIN is_suspended /\ is_suspended[u],
     ~known,
     known /\ row.seller_id = u,
     known /\ row.status # "ACTIVE",
     known /\ row.end_time <= t,
     a <= 0,
     u \notin DOMAIN balance \/ balance[u] < a,
     known /\ a < minimum,
     known /\ row.highest_bidder_id = u /\ a = row.current_price >>

Reasons ==
  << E_Suspended, E_ListingNotFound, E_SelfBid, E_NotActive, E_Ended,
     E_AmountNotPositive, E_InsufficientPoints, E_BelowMinimum, E_AlreadyHighest >>

\* The time at which the call of session p started.
StartedAt(p) == IF "now" \in DOMAIN session[p] THEN session[p].now ELSE clock

\* C11: when a place_bid call violates several preconditions at once,
\* the rejection returned is that of the first violated precondition in the
\* order suspended, listing not found, self-bid, not ACTIVE, end_time passed,
\* amount not positive, insufficient balance, below minimum, no-op re-bid; and
\* the nine rejection reasons are distinct.
C11_FirstViolation ==
  [][/\ Cardinality({Reasons[i] : i \in 1..9}) = 9
     /\ \A p \in Sessions :
          PlaceBidReturns(p) =>
            LET v == Violated(session[p].p_listing_id, session[p].p_bidder_id,
                              session[p].p_amount, StartedAt(p))
                hit == {i \in 1..9 : v[i]}
            IN IF hit = {}
                 THEN reply' = Reply("place_bid", OK)
                 ELSE reply' = Reply("place_bid",
                                     Reasons[CHOOSE i \in hit : \A j \in hit : i <= j])]_vars

\* A bid was refused as 'not active' on a draft whose end time has passed,
\* by a bidder whose wallet is empty: three preconditions fail at once.
C11_Witness ==
  /\ reply = Reply("place_bid", E_NotActive)
  /\ listings["l1"].status = "DRAFT"
  /\ listings["l1"].end_time <= clock
  /\ \A u \in Accounts : balance[u] = 0

\* C12: for a bidder who is not suspended and not the seller, on an
\* ACTIVE listing whose end_time is ahead, with an amount > 0 that the balance
\* covers, place_bid succeeds exactly when the amount is at least the minimum:
\* the starting price for the first bid (a first bid equal to it is accepted),
\* current_price + minimum_increment afterwards (current_price + k with
\* 0 <= k < minimum_increment is refused as below the minimum).
C12_MinimumDecides ==
  [][\A p \in Sessions :
       PlaceBidReturns(p) =>
         LET l == session[p].p_listing_id
             u == session[p].p_bidder_id
             a == session[p].p_amount
         IN
         (/\ l \in DOMAIN listings
          /\ u \in DOMAIN balance
          /\ ~is_suspended[u]
          /\ listings[l].seller_id # u
          /\ listings[l].status = "ACTIVE"
          /\ listings[l].end_time > clock
          /\ a > 0
          /\ balance[u] >= a)
         => LET minimum == IF bids[l] = <<>>
                             THEN listings[l].starting_price
                             ELSE listings[l].current_price
                                    + listings[l].minimum_increment
            IN IF a >= minimum
                 THEN reply' = Reply("place_bid", OK)
                 ELSE reply' = Reply("place_bid", E_BelowMinimum)]_vars

\* On a running listing with increment 2 * v_fee whose only bid is the
\* starting price, a bid of a funded bidder, which is then at least the
\* current price, has just been refused as below the minimum.
C12_Witness ==
  /\ reply = Reply("place_bid", E_BelowMinimum)
  /\ listings["l1"].status = "ACTIVE"
  /\ listings["l1"].end_time > clock
  /\ listings["l1"].minimum_increment = 2 * v_fee
  /\ Len(bids["l1"]) = 1
  /\ listings["l1"].current_price = listings["l1"].starting_price
  /\ \A u \in Buyers : balance[u] >= MaxAmount * v_fee

\* C13: a place_bid on a listing that is still ACTIVE but whose
\* end_time is at or before the current time is rejected with 'This auction
\* has ended' even if the sweeper has not run; no bid is accepted for a
\* listing at or after its end_time, in any interleaving of bids, lock waits
\* and sweeper runs.
C13_NoBidAfterEnd ==
  [][\A p \in Sessions :
       PlaceBidReturns(p) =>
         LET l == session[p].p_listing_id
             u == session[p].p_bidder_id
         IN (l \in DOMAIN listings /\ listings[l].end_time <= clock)
            => /\ ~reply'.success
               /\ (/\ ~is_suspended[u]
                   /\ listings[l].seller_id # u
                   /\ listings[l].status = "ACTIVE")
                  => reply' = Reply("place_bid", E_Ended)]_vars

\* The rows of its cursor that session p settles in this step.
Settled(p) ==
  IF session[p].pc = "sw_loop" /\ session'[p].pc = "sw_loop"
    THEN session[p].rows \ session'[p].rows
    ELSE {}

\* C14: when end_expired_auctions settles a listing that has a
\* highest bidder, the winner's balance decreases by exactly current_price and
\* one AUCTION_WIN_DEDUCTION entry of -current_price is appended if and only
\* if the winner's balance at that moment is >= current_price; with a lower
\* balance the winner is charged nothing: no balance change, no debit recorded.
C14_ChargedIfCovered ==
  [][\A p \in Sessions : \A v_listing \in Settled(p) :
       v_listing.highest_bidder_id # NULL =>
         LET w == v_listing.highest_bidder_id
             debit == Transaction(w, "AUCTION_WIN_DEDUCTION",
                                  0 - v_listing.current_price, v_listing.id)
         IN IF balance[w] >= v_listing.current_price
              THEN /\ balance' = [balance EXCEPT ![w] = @ - v_listing.current_price]
                   /\ transactions' = transactions (+) SetToBag({debit})
              ELSE /\ balance' = balance
                   /\ transactions' = transactions]_vars

\* The notifications of a type that account u receives in this step for l.
Received(u, type, l) ==
  CopiesIn(Notification(u, type, l), notifications')
    - CopiesIn(Notification(u, type, l), notifications)

\* C15: when end_expired_auctions settles a listing with a winner,
\* the winner receives exactly one AUCTION_WON and one ORDER_CONFIRMED and no
\* AUCTION_LOST; every other account that placed at least one bid on the
\* listing receives exactly one AUCTION_LOST however many bids it placed;
\* accounts that never bid on the listing receive nothing.
C15_SettlementNotices ==
  [][\A p \in Sessions : \A v_listing \in Settled(p) :
       v_listing.highest_bidder_id # NULL =>
         LET l == v_listing.id
             w == v_listing.highest_bidder_id
             others == {u \in UserIds \ {w} :
                          \E i \in 1..Len(bids[l]) : bids[l][i].bidder_id = u}
         IN
         /\ BagCardinality(notifications')
              = BagCardinality(notifications) + 2 + Cardinality(others)
         /\ \A u \in UserIds :
              /\ Received(u, "AUCTION_WON", l) = (IF u = w THEN 1 ELSE 0)
              /\ Received(u, "ORDER_CONFIRMED", l) = (IF u = w THEN 1 ELSE 0)
              /\ Received(u, "AUCTION_LOST", l) = (IF u \in others THEN 1 ELSE 0)]_vars

\* A listing has been settled whose first two bids are of one account and
\* whose last bid is of another: the first holds one AUCTION_LOST, the second
\* AUCTION_WON and ORDER_CONFIRMED.
C15_Witness ==
  /\ listings["l1"].status = "ENDED"
  /\ Len(bids["l1"]) = 3
  /\ bids["l1"][1].bidder_id = bids["l1"][2].bidder_id
  /\ bids["l1"][3].bidder_id # bids["l1"][1].bidder_id
  /\ CopiesIn(Notification(bids["l1"][1].bidder_id, "AUCTION_LOST", "l1"), notifications) = 1
  /\ CopiesIn(Notification(bids["l1"][3].bidder_id, "AUCTION_WON", "l1"), notifications) = 1
  /\ CopiesIn(Notification(bids["l1"][3].bidder_id, "ORDER_CONFIRMED", "l1"), notifications) = 1

\* C16: when end_expired_auctions settles an expired ACTIVE listing
\* that has no bids, the only change to the store is the status of that
\* listing becoming ENDED: no balance changes, no ledger entry is appended and
\* no notification is written.
C16_NoBidsOnlyEnded ==
  [][\A p \in Sessions : \A v_listing \in Settled(p) :
       bids[v_listing.id] = <<>> =>
         /\ listings[v_listing.id].status = "ACTIVE"
         /\ listings' = [listings EXCEPT ![v_listing.id].status = "ENDED"]
         /\ UNCHANGED <<is_suspended, bids, balance, transactions, notifications>>]_vars

\* A listing without bids has been settled while a buyer holds points.
C16_Witness ==
  /\ listings["l1"].status = "ENDED"
  /\ bids["l1"] = <<>>
  /\ \E u \in Buyers : balance[u] > 0
  /\ \E p \in Sessions : session[p].pc = "sw_loop" /\ session[p].v_count = 1

\* C17: once the status of a listing is ENDED or CANCELLED it never
\* changes again under any sequence of place_bid, activate_listing,
\* end_expired_auctions and listing saves; the status only moves from DRAFT to
\* ACTIVE, by activation, and from ACTIVE to ENDED, by settlement.
C17_StatusTransitions ==
  [][\A l \in DOMAIN listings :
       LET old == listings[l].status
           new == listings'[l].status
       IN
       /\ old \in {"ENDED", "CANCELLED"} => new = old
       /\ new # old =>
            \/ old = "DRAFT" /\ new = "ACTIVE"
            \/ /\ old = "ACTIVE" /\ new = "ENDED"
               /\ \E p \in Sessions : \E v \in Settled(p) : v.id = l]_vars

\* The bid state of listing l.
BidState(l) ==
  <<listings[l].current_price, listings[l].highest_bidder_id,
    listings[l].bid_count, bids[l]>>

\* C18: the bid state of a listing (current_price, highest_bidder,
\* bid_count and its Bid rows) changes only through an accepted place_bid
\* executed while the listing is ACTIVE and before its end_time; once the
\* listing is ENDED it never changes again, and settlement, activation and
\* listing saves do not modify it.
C18_BidStateByBidsOnly ==
  [][\A l \in DOMAIN listings :
       BidState(l)' # BidState(l) =>
         /\ listings[l].status = "ACTIVE"
         /\ listings[l].end_time > clock
         /\ \E p \in Sessions :
              /\ PlaceBidReturns(p)
              /\ session[p].p_listing_id = l
              /\ reply' = Reply("place_bid", OK)]_vars

\* The ledger entries of user u with a negative amount, with their copies,
\* and the sum of the entries of u with a positive amount.
Debits(u) ==
  CountRows(transactions, LAMBDA t : t.user_id = u /\ t.amount < 0)

Funded(u) ==
  SumAmounts(transactions,
             {t \in BagToSet(transactions) : t.user_id = u /\ t.amount > 0})

\* C19: given two concurrent debits of a and b on one wallet whose
\* balance covers each of them but not both, exactly one succeeds and the
\* other fails as insufficient: when both have returned, exactly one negative
\* ledger entry has been appended and the final balance is the initial
\* balance less the amount of that entry.
C19_OneDebitWins ==
  Quiescent =>
    /\ Debits("b1") = 1
    /\ \E t \in BagToSet(transactions) :
         /\ t.user_id = "b1"
         /\ t.amount < 0
         /\ balance["b1"] = Funded("b1") + t.amount

\* C20: a credit or debit that is refused changes neither balance nor
\* ledger, and none succeeds with an amount <= 0; a successful credit of a
\* raises the balance of its wallet by exactly a and appends exactly one
\* TOP_UP entry of +a, both in one step.
C20_CreditContract ==
  [][/\ (reply'.op \in {"credit_wallet", "creditPoints", "debit_wallet", "debitPoints"}
         /\ ~reply'.success)
        => UNCHANGED <<balance, transactions>>
     /\ (reply'.op \in {"credit_wallet", "creditPoints"} /\ reply'.success)
        => \E u \in DOMAIN balance :
             LET a == balance'[u] - balance[u] IN
             /\ a > 0
             /\ balance' = [balance EXCEPT ![u] = @ + a]
             /\ transactions' = transactions
                                  (+) SetToBag({Transaction(u, "TOP_UP", a, NULL)})]_vars

\* The sessions that hold a row lock for which the next statement of the
\* operation of session p has to wait.
WaitsFor(p) ==
  LET c == session[p] IN
  IF c.pc = "pb_listing"
    THEN IF c.p_listing_id \in DOMAIN listingLock
           THEN {listingLock[c.p_listing_id]} \ {0, p}
           ELSE {}
  ELSE IF c.pc = "pb_wallet"
    THEN IF c.p_bidder_id \in DOMAIN walletLock
           THEN {walletLock[c.p_bidder_id]} \ {0, p}
           ELSE {}
  ELSE IF c.pc = "al_wallet"
    THEN IF c.p_user_id \in DOMAIN walletLock
           THEN {walletLock[c.p_user_id]} \ {0, p}
           ELSE {}
  ELSE IF c.pc = "sw_loop"
    THEN IF /\ c.rows # {}
            /\ \A v \in c.rows :
                 /\ v.highest_bidder_id # NULL
                 /\ WinnerCharged(balance, v.highest_bidder_id, v.current_price)
                 /\ walletLock[v.highest_bidder_id] \notin {0, p}
           THEN {walletLock[v.highest_bidder_id] : v \in c.rows}
           ELSE {}
  ELSE {}

\* C21: no interleaving of concurrent place_bid, activate_listing,
\* debit_wallet, credit_wallet and end_expired_auctions transactions
\* deadlocks: never do two started operations each wait for a row lock that
\* the other holds, so every started operation can go on to its commit or
\* its rejection.
C21_NoDeadlock ==
  \A p \in Sessions : \A q \in Sessions \ {p} :
    ~(q \in WaitsFor(p) /\ p \in WaitsFor(q))

C23_AtMostOneApproved ==
  ~(bids["l1"] # <<>> /\ bids["l2"] # <<>>)

\* C23, amended: both bids are accepted in every interleaving.  The
\* wallet row lock only serialises the two reads of the balance; place_bid
\* compares each amount with the whole balance and holds no points, so when
\* both calls have returned each listing carries the bid of b1 made on it,
\* the two amounts together exceed the balance, and the balance is what it
\* was.
C23_BothApproved ==
  Quiescent =>
    /\ \A l \in ListingIds :
         /\ Len(bids[l]) = 1
         /\ bids[l][1].bidder_id = "b1"
         /\ bids[l][1].amount <= balance["b1"]
         /\ listings[l].highest_bidder_id = "b1"
         /\ listings[l].current_price = bids[l][1].amount
    /\ bids["l1"][1].amount + bids["l2"][1].amount > balance["b1"]
    /\ balance["b1"] = Funded("b1")
    /\ Debits("b1") = 0

\* Both calls have returned and b1 stands as highest bidder on both listings
\* with the whole balance bid on each.
C23_Witness ==
  /\ Quiescent
  /\ bids["l1"] # <<>> /\ bids["l2"] # <<>>
  /\ bids["l1"][1].amount = balance["b1"]
  /\ bids["l2"][1].amount = balance["b1"]

\* The place_bid call of session p that returns is a re-bid: an account that
\* is not suspended and holds the points bids, on a running listing of which
\* it is the highest bidder, the current price of the listing.
ReBid(p) ==
  LET l == session[p].p_listing_id
      u == session[p].p_bidder_id
      a == session[p].p_amount
  IN
  /\ PlaceBidReturns(p)
  /\ l \in DOMAIN listings
  /\ u \in DOMAIN balance
  /\ ~is_suspended[u]
  /\ listings[l].status = "ACTIVE"
  /\ listings[l].end_time > clock
  /\ listings[l].highest_bidder_id = u
  /\ a = listings[l].current_price
  /\ balance[u] >= a

\* C24: a place_bid by the account that is already the highest bidder
\* of the listing, with amount equal to current_price, is rejected with 'You
\* are already the highest bidder at this amount.', a reason distinct from the
\* below-minimum reason.
C24_ReBidIsNoOp ==
  [][\A p \in Sessions :
       ReBid(p) => /\ reply' = Reply("place_bid", E_AlreadyHighest)
                   /\ E_AlreadyHighest # E_BelowMinimum]_vars

\* What place_bid does with a re-bid: it is rejected and changes nothing, but
\* with the below-minimum reason: the minimum of a listing that has a highest
\* bidder is current_price + minimum_increment with minimum_increment >= 1,
\* and it is checked first.  No place_bid returns 'You are already the highest
\* bidder at this amount.'.
C24_ReBidBelowMinimum ==
  [][\A p \in Sessions :
       /\ ReBid(p) => /\ reply' = Reply("place_bid", E_BelowMinimum)
                      /\ store' = store
       /\ PlaceBidReturns(p) => reply'.error # E_AlreadyHighest
       /\ \A l \in DOMAIN listings : listings[l].minimum_increment >= 1]_vars

\* On a running listing with increment v_fee whose highest bidder, at price
\* v_fee, is the only account that holds points, a bid has just been refused
\* as below the minimum: it was a bid of v_fee by the highest bidder.
C24_Witness ==
  /\ reply = Reply("place_bid", E_BelowMinimum)
  /\ listings["l1"].status = "ACTIVE"
  /\ listings["l1"].end_time > clock
  /\ listings["l1"].minimum_increment = v_fee
  /\ listings["l1"].current_price = v_fee
  /\ listings["l1"].highest_bidder_id \in Buyers
  /\ balance[listings["l1"].highest_bidder_id] >= v_fee
  /\ \A u \in Accounts \ {listings["l1"].highest_bidder_id} : balance[u] = 0

\* C25: a place_bid whose p_bidder_id is the id of no existing account
\* is rejected with a not-found reason by the first precondition, before the
\* listing is examined; one by a suspended account is rejected with 'Your
\* account is suspended.'; neither is ever accepted.
C25_UnknownBidderNotFound ==
  [][\A p \in Sessions :
       LET u == session[p].p_bidder_id IN
       /\ PlaceBidReturns(p) /\ u \notin Accounts =>
            /\ session[p].pc = "pb_begin"
            /\ reply' \in {Reply("place_bid", E_ListingNotFound),
                           Reply("place_bid", E_WalletNotFound)}
       /\ PlaceBidReturns(p) /\ u \in Accounts /\ is_suspended[u] =>
            /\ session[p].pc = "pb_begin"
            /\ reply' = Reply("place_bid", E_Suspended)]_vars

\* What place_bid does with these bidders: the suspended account is refused
\* at once as suspended; the unknown bidder passes the first check (its
\* profile row is missing, so is_suspended reads NULL), has the listing locked
\* and examined, and is refused by a check on the listing or, on a running
\* listing with a positive amount, as 'Insufficient bid points.' because it
\* has no wallet.  Neither is ever accepted and neither writes anything.
C25_NeverAccepted ==
  [][\A p \in Sessions :
       LET u == session[p].p_bidder_id
           l == session[p].p_listing_id
       IN
       /\ PlaceBidReturns(p) /\ u \in Accounts /\ is_suspended[u] =>
            /\ session[p].pc = "pb_begin"
            /\ reply' = Reply("place_bid", E_Suspended)
            /\ store' = store
       /\ PlaceBidReturns(p) /\ u \notin Accounts =>
            /\ session[p].pc # "pb_begin"
            /\ ~reply'.success
            /\ store' = store
            /\ (/\ l \in DOMAIN listings
                /\ listings[l].status = "ACTIVE"
                /\ listings[l].end_time > StartedAt(p)
                /\ session[p].p_amount > 0)
               => reply' = Reply("place_bid", E_InsufficientPoints)]_vars

\* On the running listing a bid has just been refused for insufficient points
\* although every buyer holds the largest amount that can be bid and the
\* seller is refused earlier: the bidder was the unknown one.
C25_Witness ==
  /\ reply = Reply("place_bid", E_InsufficientPoints)
  /\ listings["l1"].status = "ACTIVE"
  /\ listings["l1"].end_time > clock
  /\ \A u \in Buyers : balance[u] >= MaxAmount * v_fee

\* The notifications of the given type that session p has started and that
\* have not finished yet.
Sending(p, type) ==
  IF session[p].pc = "notify" THEN {n \in session[p].pending : n.type = type} ELSE {}

\* What placeBid of the client library does once place_bid has returned
\* success: the helpers are started only when the bid row is stored and the
\* locks of the transaction are released, and a helper that finishes, stored or
\* failed, changes neither the bids nor the listing nor the result, which is
\* success when the last helper has finished.
C26_BestEffortRpc ==
  [][\A p \in Sessions :
       /\ session'[p].pc = "notify" =>
            /\ [bidder_id |-> session'[p].bidderId, amount |-> session'[p].amount]
                 \in {bids'[session'[p].listingId][i] :
                        i \in 1..Len(bids'[session'[p].listingId])}
            /\ \A l \in ListingIds : listingLock'[l] # p
            /\ session'[p].result = Reply("placeBid", OK)
       /\ (session[p].pc = "notify" /\ session'[p] # session[p]) =>
            /\ bids' = bids
            /\ listings' = listings
            /\ session'[p] = Idle => reply' = Reply("placeBid", OK)]_vars

\* C26: the notifications are dispatched only after the bid is
\* committed, and a failure of any of the post-bid notifications (bid-placed,
\* highest-bidder, outbid, new-bid-received) neither undoes the Bid row and
\* the listing update nor turns the result of placeBid into a failure: a
\* placeBid that has stored its bid returns success.
C26_FailureKeepsSuccess ==
  [][\A l \in DOMAIN bids :
       bids'[l] # bids[l] =>
         /\ Len(bids'[l]) = Len(bids[l]) + 1
         /\ listings'[l].highest_bidder_id = LastBid(l)'.bidder_id
         /\ listings'[l].current_price = LastBid(l)'.amount
         /\ reply'.op = "placeBid" => reply' = Reply("placeBid", OK)]_vars

Activable(l, u) ==
  /\ l \in DOMAIN listings
  /\ listings[l].seller_id = u
  /\ listings[l].status = "DRAFT"

\* The step changes nothing of listing l but its status, which becomes ACTIVE.
Activated(l) ==
  listings' = [listings EXCEPT ![l].status = "ACTIVE"]

\* C28: activate_listing succeeds only when the caller is the
\* seller of the listing and the listing is a DRAFT, and then sets the status
\* to ACTIVE; with the listing fee it also takes exactly v_fee points from the
\* seller's wallet and adds one LISTING_FEE row of -v_fee in the same step.
\* Every failure (listing not found, not the owner, not a draft, balance below
\* the fee) leaves the listing, the wallets and the ledger unchanged.
C28_ActivateContract ==
  [][\A p \in Sessions :
       /\ \A l \in ListingIds \cup {MissingListing}, u \in Accounts :
            /\ ActivateListing(p, {l}, {u}) =>
                 IF Activable(l, u)
                   THEN /\ reply' = Reply("activate_listing", OK)
                        /\ Activated(l)
                        /\ UNCHANGED <<is_suspended, bids, balance, transactions, notifications>>
                   ELSE /\ ~reply'.success
                        /\ store' = store
            /\ ActivateFeeLockListing(p, {l}, {u}) =>
                 /\ store' = store
                 /\ IF Activable(l, u)
                      THEN session'[p].pc = "al_wallet" /\ reply' = NoReply
                      ELSE ~reply'.success /\ session'[p] = Idle
       /\ ActivateFeeLockWallet(p) =>
            LET l == session[p].p_listing_id
                u == session[p].p_user_id
            IN /\ Activable(l, u)
               /\ IF balance[u] >= v_fee
                    THEN /\ reply' = Reply("activate_listing", OK)
                         /\ Activated(l)
                         /\ balance' = [balance EXCEPT ![u] = @ - v_fee]
                         /\ transactions' = transactions
                              (+) SetToBag({Transaction(u, "LISTING_FEE", 0 - v_fee, l)})
                         /\ UNCHANGED <<is_suspended, bids, notifications>>
                    ELSE /\ ~reply'.success
                         /\ store' = store
       /\ (reply'.op = "activate_listing" /\ reply'.success) =>
            \E l \in DOMAIN listings :
              /\ listings[l].status = "DRAFT"
              /\ Activated(l)]_vars

\* The fee has been taken for a listing that is now running, and the seller,
\* who had topped up v_fee twice, is left with v_fee.
C28_Witness ==
  /\ reply = Reply("activate_listing", OK)
  /\ listings["l1"].status = "ACTIVE"
  /\ balance["s"] = v_fee
  /\ BagIn(Transaction("s", "LISTING_FEE", 0 - v_fee, "l1"), transactions)
  /\ BagCardinality(transactions) = 3

\* C29: place_bid never moves points: whether the bid is accepted
\* or rejected, every step of the call leaves every wallet balance and the
\* ledger unchanged.
C29_BidMovesNoPoints ==
  [][\A p \in Sessions :
       (/\ session[p].pc \in {"idle", "pb_begin", "pb_listing", "pb_wallet"}
        /\ session'[p].pc \in {"idle", "pb_begin", "pb_listing", "pb_wallet"}
        /\ session'[p] # session[p])
       => /\ balance' = balance
          /\ transactions' = transactions]_vars

\* A bid of the whole balance has just been accepted: the bidder still holds
\* the points of its one top-up, and the top-up is the only row of the ledger.
C29_Witness ==
  /\ reply = Reply("place_bid", OK)
  /\ Len(bids["l1"]) > 0
  /\ LastBid("l1").amount = MaxAmount * v_fee
  /\ balance[LastBid("l1").bidder_id] = MaxAmount * v_fee
  /\ transactions = SetToBag({Transaction(LastBid("l1").bidder_id, "TOP_UP",
                                          MaxAmount * v_fee, NULL)})

\* C30: when a listing is settled, the account treated as winner
\* and the price are exactly the bidder and the amount of the last bid
\* accepted on the listing, which is the maximum among its bids (no winner if
\* there is none), and they are the listing's final highest_bidder_id and
\* current_price: no bid is accepted, and neither field changes, once the
\* listing is ENDED.
C30_SettledIsLastBid ==
  [][/\ \A p \in Sessions : \A v \in Settled(p) :
          LET l == v.id
              n == Len(bids[l])
          IN /\ listings'[l].status = "ENDED"
             /\ listings'[l].highest_bidder_id = v.highest_bidder_id
             /\ listings'[l].current_price = v.current_price
             /\ bids'[l] = bids[l]
             /\ IF n = 0
                  THEN v.highest_bidder_id = NULL
                  ELSE /\ v.highest_bidder_id = bids[l][n].bidder_id
                       /\ v.current_price = bids[l][n].amount
                       /\ \A i \in 1..n : bids[l][i].amount <= v.current_price
             /\ \A u \in Accounts :
                  /\ Received(u, "AUCTION_WON", l) = IF u = v.highest_bidder_id THEN 1 ELSE 0
                  /\ balance'[u] # balance[u] =>
                       /\ u = v.highest_bidder_id
                       /\ balance'[u] = balance[u] - v.current_price
     /\ \A l \in DOMAIN listings :
          listings[l].status = "ENDED" =>
            /\ bids'[l] = bids[l]
            /\ listings'[l].status = "ENDED"
            /\ listings'[l].highest_bidder_id = listings[l].highest_bidder_id
            /\ listings'[l].current_price = listings[l].current_price]_vars

\* What the database functions do on their own: the property above holds when
\* the listing is written by place_bid, activate_listing and
\* end_expired_auctions only.  A listing has been settled for the bidder of
\* the second of two bids, at the amount of that bid.
C30_Witness ==
  /\ listings["l1"].status = "ENDED"
  /\ Len(bids["l1"]) = 2
  /\ bids["l1"][1].bidder_id # bids["l1"][2].bidder_id
  /\ listings["l1"].highest_bidder_id = bids["l1"][2].bidder_id
  /\ listings["l1"].current_price = bids["l1"][2].amount
  /\ BagIn(Notification(bids["l1"][2].bidder_id, "AUCTION_WON", "l1"), notifications)

====
